---- MODULE Spec2Model ----
(***************************************************************************)
(* Model of the in-memory file system (InMemoryFileSystem and its path     *)
(* helpers).                                                               *)
(*                                                                         *)
(* Python strings are sequences of one-character strings, so that split,   *)
(* join, startswith and the f-string concatenations are computed as the    *)
(* code computes them.  Python dict objects are nodes of a heap indexed by *)
(* object identity, so that aliasing (two entries holding the same dict)   *)
(* and cycles are representable.                                           *)
(***************************************************************************)
EXTENDS Integers, Sequences, FiniteSets, TLC

VARIABLES file_system, current_directory, disk, last

vars == <<file_system, current_directory, disk, last>>

(***************************************************************************)
(* Bounds.                                                                 *)
(***************************************************************************)
\* Largest number of live dict objects (the outer dict included) in a state.
MaxNodes == 4

\* Longest path string, in characters, that the path resolver is applied to.
MaxPathLen == 10

(***************************************************************************)
(* Strings.                                                                *)
(***************************************************************************)
Slash == <<"/">>
DotDot == <<".", ".">>
Tilde == <<"~">>
Empty == <<>>

\* str.startswith('/')
StartsWithSlash(s) == Len(s) > 0 /\ s[1] = "/"

\* '..' in s
ContainsDotDot(s) == \E i \in 1..(Len(s) - 1) : s[i] = "." /\ s[i + 1] = "."

RECURSIVE SplitRec(_, _, _, _)
SplitRec(s, i, cur, acc) ==
    IF i > Len(s) THEN Append(acc, cur)
    ELSE IF s[i] = "/" THEN SplitRec(s, i + 1, <<>>, Append(acc, cur))
    ELSE SplitRec(s, i + 1, Append(cur, s[i]), acc)

\* s.split('/')
Split(s) == SplitRec(s, 1, <<>>, <<>>)

RECURSIVE Join(_)
\* '/'.join(parts)
Join(parts) ==
    IF Len(parts) = 0 THEN <<>>
    ELSE IF Len(parts) = 1 THEN parts[1]
    ELSE parts[1] \o Slash \o Join(Tail(parts))

\* [part for part in s.split('/') if part]
NonEmptyParts(s) == SelectSeq(Split(s), LAMBDA p : p # <<>>)

\* f"{current_directory}/{name}"
FPath(cwd, name) == cwd \o Slash \o name

\* parts[:-1]
Front(parts) == SubSeq(parts, 1, Len(parts) - 1)

(***************************************************************************)
(* utils.py                                                                *)
(***************************************************************************)
\* get_absolute_path: the relative branch pops the last segment of the
\* current directory when the first input segment is '..' and then appends
\* ALL input segments; a pop from an empty list raises, and the handler
\* returns ''.
get_absolute_path(cwd, path) ==
    IF StartsWithSlash(path) THEN path
    ELSE LET cd1 == IF cwd # Slash THEN cwd \o Slash ELSE cwd
             current_parts == NonEmptyParts(cd1)
             path_parts == NonEmptyParts(path)
             popping == Len(path_parts) > 0 /\ path_parts[1] = DotDot
         IN  IF popping /\ Len(current_parts) = 0 THEN Empty
             ELSE Slash \o Join((IF popping THEN Front(current_parts)
                                            ELSE current_parts) \o path_parts)

\* get_parent_and_name
get_parent_and_name(path) ==
    LET parts == Split(path)
    IN  <<Join(Front(parts)), parts[Len(parts)]>>

(***************************************************************************)
(* The heap of dict objects.  A node is one dict:                          *)
(*   type  : the value under 'type' ("none" when the key is absent, as in  *)
(*           the outer dict built by __init__)                             *)
(*   slash : TRUE when the dict has the key '/' (the outer dict built by   *)
(*           __init__ maps it to an empty directory literal)               *)
(*   k     : what is under 'contents': "absent", "dict" or "str"           *)
(*   d     : when k = "dict", the mapping from names to object identities  *)
(*   s     : when k = "str", the string                                    *)
(* A heap is a function from 0..n-1 to nodes; self.file_system is node 0.  *)
(***************************************************************************)
None == -1

Node(type, slash, k, d, s) == [type |-> type, slash |-> slash, k |-> k, d |-> d, s |-> s]

NewDirectory == Node("directory", FALSE, "dict", <<>>, <<>>)
NewFile == Node("file", FALSE, "str", <<>>, <<>>)

\* {'/': {'type': 'directory', 'contents': {}}}
FreshFileSystem == <<Node("none", TRUE, "absent", <<>>, <<>>)>>

\* a heap is kept as a sequence indexed from 1; identity i is heap[i + 1]
At(h, id) == h[id + 1]
Ids(h) == 0..(Len(h) - 1)
Put(h, id, n) == [h EXCEPT ![id + 1] = n]
Alloc(h, n) == Append(h, n)
NewId(h) == Len(h)

\* current.get('contents', {}).get(part); a str under 'contents' raises
\* AttributeError, which get_directory turns into None
Child(h, id, part) ==
    LET n == At(h, id)
    IN  IF n.k = "dict" /\ part \in DOMAIN n.d THEN n.d[part] ELSE None

RECURSIVE Walk(_, _, _)
Walk(h, id, parts) ==
    IF Len(parts) = 0 THEN id
    ELSE IF parts[1] = <<>> THEN Walk(h, id, Tail(parts))
    ELSE LET c == Child(h, id, parts[1])
         IN  IF c = None THEN None ELSE Walk(h, c, Tail(parts))

\* get_directory(self.file_system, path)
get_directory(h, path) == Walk(h, 0, Split(path))


\* dict.items: the names under 'contents' of a node
Keys(n) == IF n.k = "dict" THEN DOMAIN n.d ELSE {}

\* parent['contents'][key] = id, where 'contents' is a dict
SetItem(h, id, key, val) ==
    LET n == At(h, id)
    IN  Put(h, id, [n EXCEPT !.d = [x \in (DOMAIN n.d) \cup {key} |->
                                        IF x = key THEN val ELSE n.d[x]]])

\* del parent['contents'][key], where 'contents' is a dict holding key
DelItem(h, id, key) ==
    LET n == At(h, id)
    IN  Put(h, id, [n EXCEPT !.d = [x \in (DOMAIN n.d) \ {key} |-> n.d[x]]])

\* node['contents'] = text
SetContents(h, id, text) ==
    Put(h, id, [At(h, id) EXCEPT !.k = "str", !.d = <<>>, !.s = text])

(***************************************************************************)
(* Object graph: reachability, garbage, and the naming of identities.      *)
(***************************************************************************)
Succ(h, id) == {At(h, id).d[x] : x \in Keys(At(h, id))}

RECURSIVE ReachRec(_, _, _)
ReachRec(h, frontier, seen) ==
    IF frontier = {} THEN seen
    ELSE LET next == UNION {Succ(h, i) : i \in frontier} \ seen
         IN  ReachRec(h, next, seen \cup next)

\* the objects reachable from id through child entries, id included
Reach(h, id) == ReachRec(h, {id}, {id})

\* the objects reachable from id through at least one child entry
ReachStrict(h, id) == ReachRec(h, Succ(h, id), Succ(h, id))

Alphabet == <<"/", ".", "~", "a", "b", "c", "x", "y", "n", "\\", "\n">>
CharRank(c) == CHOOSE i \in 1..Len(Alphabet) : Alphabet[i] = c

RECURSIVE LessStr(_, _)
LessStr(s, t) ==
    IF Len(t) = 0 THEN FALSE
    ELSE IF Len(s) = 0 THEN TRUE
    ELSE IF s[1] # t[1] THEN CharRank(s[1]) < CharRank(t[1])
    ELSE LessStr(Tail(s), Tail(t))

RECURSIVE SortStrs(_)
SortStrs(S) ==
    IF S = {} THEN <<>>
    ELSE LET m == CHOOSE x \in S : \A y \in S \ {x} : LessStr(x, y)
         IN  <<m>> \o SortStrs(S \ {m})

InSeq(x, seq) == \E i \in 1..Len(seq) : seq[i] = x
PosIn(x, seq) == CHOOSE i \in 1..Len(seq) : seq[i] = x

RECURSIVE Dfs(_, _, _)
RECURSIVE DfsKeys(_, _, _, _)
Dfs(h, id, seq) ==
    IF InSeq(id, seq) THEN seq
    ELSE DfsKeys(h, id, SortStrs(Keys(At(h, id))), Append(seq, id))
DfsKeys(h, id, keys, seq) ==
    IF Len(keys) = 0 THEN seq
    ELSE DfsKeys(h, id, Tail(keys), Dfs(h, At(h, id).d[keys[1]], seq))

RECURSIVE Renumber(_, _, _)
Renumber(h, order, i) ==
    IF i > Len(order) THEN <<>>
    ELSE LET n == At(h, order[i])
         IN  <<[n EXCEPT !.d = [x \in Keys(n) |-> PosIn(n.d[x], order) - 1]]>>
             \o Renumber(h, order, i + 1)

\* Objects no longer reachable from self.file_system are reclaimed by the
\* Python runtime, and an object identity is observable only through
\* aliasing: a state keeps the reachable objects, named in depth-first
\* order from the outer dict.
Normalize(h) == Renumber(h, Dfs(h, 0, <<>>), 1)

RECURSIVE SortIds(_)
SortIds(S) ==
    IF S = {} THEN <<>>
    ELSE LET m == CHOOSE x \in S : \A y \in S : x <= y
         IN  <<m>> \o SortIds(S \ {m})

RECURSIVE CopyNodes(_, _, _)
CopyNodes(h, order, i) ==
    IF i > Len(order) THEN <<>>
    ELSE LET n == At(h, order[i])
         IN  <<[n EXCEPT !.d = [x \in Keys(n) |->
                                   Len(h) + PosIn(n.d[x], order) - 1]]>>
             \o CopyNodes(h, order, i + 1)

\* copy.copy(item) in the place of copy.deepcopy(item): a new top dict whose
\* entries hold the children of the original
deepcopy_shallow(h, id) == [h |-> Append(h, At(h, id)), id |-> Len(h)]

\* copy.deepcopy(item): every object reachable from item is copied once
\* (the memo keeps aliasing and cycles inside the copy); the result is the
\* heap with the copies and the identity of the copy of item
deepcopy(h, id) ==
    LET order == SortIds(Reach(h, id))
    IN  [h |-> h \o CopyNodes(h, order, 1),
         id |-> Len(h) + PosIn(id, order) - 1]


(***************************************************************************)
(* InMemoryFileSystem operations.  Each is an operator from the heap h and *)
(* the current directory cwd to [h |-> the heap left behind, ret |-> the   *)
(* value returned].  An exception raised in the middle of a method is      *)
(* caught by its handler, which returns False: what was assigned before    *)
(* the raise stays assigned.                                               *)
(***************************************************************************)
Result(h, ret) == [h |-> h, ret |-> ret]

\* `path in self.file_system`: a key of the outer dict
InOuterDict(h, path) ==
    \/ path = Slash /\ At(h, 0).slash
    \/ path = <<"c", "o", "n", "t", "e", "n", "t", "s">> /\ At(h, 0).k # "absent"
    \/ path = <<"t", "y", "p", "e">> /\ At(h, 0).type # "none"

mkdir(h, cwd, directory_name) ==
    IF directory_name = Empty THEN Result(h, FALSE)
    ELSE LET new_directory_path == get_absolute_path(cwd, directory_name)
         IN  IF InOuterDict(h, new_directory_path) THEN Result(h, FALSE)
             ELSE LET pn == get_parent_and_name(new_directory_path)
                      parent_directory == get_directory(h, pn[1])
                  IN  IF parent_directory = None THEN Result(h, FALSE)
                      ELSE LET p == At(h, parent_directory)
                               h1 == IF p.k = "absent"
                                     THEN Put(h, parent_directory, [p EXCEPT !.k = "dict"])
                                     ELSE h
                           IN  IF At(h1, parent_directory).k # "dict" THEN Result(h1, FALSE)
                               ELSE Result(SetItem(Alloc(h1, NewDirectory), parent_directory,
                                                   pn[2], NewId(h1)), TRUE)

\* the creation shared by touch and echo:
\*   parent_directory['contents'][new_file_name] = {'type': 'file', 'contents': ''}
\* raises when the parent is None or has no dict under 'contents'
CreateFile(h, file_path) ==
    LET pn == get_parent_and_name(file_path)
        parent_directory == get_directory(h, pn[1])
    IN  IF parent_directory = None THEN Result(h, FALSE)
        ELSE IF At(h, parent_directory).k # "dict" THEN Result(h, FALSE)
        ELSE Result(SetItem(Alloc(h, NewFile), parent_directory, pn[2], NewId(h)), TRUE)

touch(h, cwd, file_name) ==
    IF file_name = Empty THEN Result(h, FALSE)
    ELSE LET file_path == FPath(cwd, file_name)
         IN  IF get_directory(h, file_path) # None THEN Result(h, FALSE)
             ELSE CreateFile(h, file_path)

RECURSIVE Replace(_)
\* text.replace("\\n", "\n")
Replace(text) ==
    IF Len(text) = 0 THEN <<>>
    ELSE IF Len(text) >= 2 /\ text[1] = "\\" /\ text[2] = "n"
         THEN <<"\n">> \o Replace(SubSeq(text, 3, Len(text)))
    ELSE <<text[1]>> \o Replace(Tail(text))

echo(h, cwd, text, file_name, delete_content) ==
    IF file_name = Empty THEN Result(h, FALSE)
    ELSE LET file_path == FPath(cwd, file_name)
             c == IF get_directory(h, file_path) = None
                  THEN CreateFile(h, file_path)
                  ELSE Result(h, TRUE)
         IN  IF ~c.ret THEN c
             ELSE LET target_file == get_directory(c.h, file_path)
                  IN  IF target_file = None THEN Result(c.h, FALSE)
                      ELSE Result(SetContents(c.h, target_file,
                                              IF delete_content THEN Empty
                                              ELSE Replace(text)), TRUE)

\* the last two statements of mv:
\*   destination_directory['contents'][source] = source_item
\*   del get_directory(self.file_system, self.current_directory)['contents'][source]
MoveInto(h, cwd, source, source_item, destination_directory) ==
    IF At(h, destination_directory).k # "dict" THEN Result(h, FALSE)
    ELSE LET h1 == SetItem(h, destination_directory, source, source_item)
             here == get_directory(h1, cwd)
         IN  IF here = None THEN Result(h1, FALSE)
             ELSE IF source \notin Keys(At(h1, here)) THEN Result(h1, FALSE)
             ELSE Result(DelItem(h1, here, source), TRUE)

mv(h, cwd, source, destination) ==
    LET source_path == FPath(cwd, source)
        destination_path == FPath(cwd, destination)
        source_item == get_directory(h, source_path)
        parent_directory_path == get_parent_and_name(cwd)[1]
        destination_directory ==
            IF ContainsDotDot(destination)
            THEN get_directory(h, parent_directory_path)
            ELSE get_directory(h, destination_path)
    IN  IF source_item = None THEN Result(h, FALSE)
        ELSE IF ContainsDotDot(destination) /\ parent_directory_path = Empty
             THEN Result(h, FALSE)
        ELSE IF destination_directory = None THEN Result(h, FALSE)
        ELSE IF At(h, destination_directory).type # "directory" THEN Result(h, FALSE)
        ELSE MoveInto(h, cwd, source, source_item, destination_directory)

cp(h, cwd, source, destination) ==
    LET source_path == FPath(cwd, source)
        destination_path == FPath(cwd, destination)
        source_item == get_directory(h, source_path)
        pn == get_parent_and_name(destination_path)
        destination_name == pn[2]
        destination_directory_path ==
            IF destination_name = DotDot THEN get_parent_and_name(pn[1])[1] ELSE pn[1]
        destination_directory == get_directory(h, destination_directory_path)
    IN  IF source_item = None THEN Result(h, FALSE)
        ELSE IF destination_directory = None THEN Result(h, FALSE)
        ELSE IF At(h, destination_directory).type # "directory" THEN Result(h, FALSE)
        ELSE LET c == deepcopy(h, source_item)
             IN  IF At(h, destination_directory).k # "dict" THEN Result(c.h, FALSE)
                 ELSE Result(SetItem(c.h, destination_directory, destination_name, c.id),
                             TRUE)

\* rm with the entry deleted from the current directory, as mv deletes its
\* source, in the place of the parent of the item
rm_from_cwd(h, cwd, path) ==
    IF path = Slash THEN Result(h, FALSE)
    ELSE LET item_path == FPath(cwd, path)
             item == get_directory(h, item_path)
             pn == get_parent_and_name(item_path)
             parent == get_directory(h, cwd)
         IN  IF item = None THEN Result(h, FALSE)
             ELSE IF parent = None THEN Result(h, FALSE)
             ELSE IF pn[2] \notin Keys(At(h, parent)) THEN Result(h, FALSE)
             ELSE Result(DelItem(h, parent, pn[2]), TRUE)

rm(h, cwd, path) ==
    IF path = Slash THEN Result(h, FALSE)
    ELSE LET item_path == FPath(cwd, path)
             item == get_directory(h, item_path)
             pn == get_parent_and_name(item_path)
             parent == get_directory(h, pn[1])
         IN  IF item = None THEN Result(h, FALSE)
             ELSE IF parent = None THEN Result(h, FALSE)
             ELSE IF pn[2] \notin Keys(At(h, parent)) THEN Result(h, FALSE)
             ELSE Result(DelItem(h, parent, pn[2]), TRUE)

\* cd with the assignment made before the test of the parent path: a failed
\* cd("..") leaves the empty parent path as the current directory
cd_assign_first(h, cwd, path) ==
    IF path = Slash \/ path = Tilde THEN [cwd |-> Slash, ret |-> TRUE]
    ELSE IF path = DotDot
         THEN LET parent_directory_path == get_parent_and_name(cwd)[1]
              IN  [cwd |-> parent_directory_path, ret |-> parent_directory_path # Empty]
    ELSE LET target_directory_path ==
                 IF StartsWithSlash(path) THEN path ELSE get_absolute_path(cwd, path)
         IN  IF target_directory_path = Slash THEN [cwd |-> Slash, ret |-> TRUE]
             ELSE [cwd |-> target_directory_path,
                   ret |-> get_directory(h, target_directory_path) # None]

\* cd: [cwd |-> the current directory left behind, ret |-> the value returned]
cd(h, cwd, path) ==
    IF path = Slash \/ path = Tilde THEN [cwd |-> Slash, ret |-> TRUE]
    ELSE IF path = DotDot
         THEN LET parent_directory_path == get_parent_and_name(cwd)[1]
              IN  IF parent_directory_path # Empty
                  THEN [cwd |-> parent_directory_path, ret |-> TRUE]
                  ELSE [cwd |-> cwd, ret |-> FALSE]
    ELSE LET target_directory_path ==
                 IF StartsWithSlash(path) THEN path ELSE get_absolute_path(cwd, path)
         IN  IF target_directory_path = Slash THEN [cwd |-> Slash, ret |-> TRUE]
             ELSE IF get_directory(h, target_directory_path) # None
                  THEN [cwd |-> target_directory_path, ret |-> TRUE]
             ELSE [cwd |-> cwd, ret |-> FALSE]

\* the argument None: no string has this element
NoPath == <<"None">>

\* ls: the names listed, as a set; [] when the path names nothing or what is
\* under 'contents' has no keys() (a str raises AttributeError)
ls(h, cwd, path) ==
    LET target_directory == get_directory(h, IF path = NoPath THEN cwd ELSE path)
    IN  IF target_directory = None THEN {}
        ELSE Keys(At(h, target_directory))

\* what cat returns: None, or what is under 'contents'
CatNone == [k |-> "none", s |-> <<>>]
CatStr(s) == [k |-> "str", s |-> s]

cat(h, cwd, file_name) ==
    LET target_file == get_directory(h, FPath(cwd, file_name))
    IN  IF target_file = None THEN CatNone
        ELSE IF At(h, target_file).type # "file" THEN CatNone
        ELSE IF At(h, target_file).k = "absent" THEN CatStr(Empty)
        ELSE [k |-> At(h, target_file).k, s |-> At(h, target_file).s]

RECURSIVE SplitLinesRec(_, _, _, _)
SplitLinesRec(s, i, cur, acc) ==
    IF i > Len(s) THEN Append(acc, cur)
    ELSE IF s[i] = "\n" THEN SplitLinesRec(s, i + 1, <<>>, Append(acc, cur))
    ELSE SplitLinesRec(s, i + 1, Append(cur, s[i]), acc)

\* contents.split('\n')
SplitLines(s) == SplitLinesRec(s, 1, <<>>, <<>>)

\* pattern in line
Contains(pattern, line) ==
    \E i \in 0..(Len(line) - Len(pattern)) :
        SubSeq(line, i + 1, i + Len(pattern)) = pattern

\* grep: the lines of the file that contain the pattern; [] when the name
\* is not that of a file, or what is under 'contents' has no split() (a
\* dict raises AttributeError)
grep(h, cwd, file_name, pattern) ==
    LET target_file == get_directory(h, FPath(cwd, file_name))
    IN  IF target_file = None THEN <<>>
        ELSE IF At(h, target_file).type # "file" THEN <<>>
        ELSE IF At(h, target_file).k = "dict" THEN <<>>
        ELSE SelectSeq(SplitLines(At(h, target_file).s),
                       LAMBDA line : Contains(pattern, line))


(***************************************************************************)
(* Snapshot: json.dump / json.load.                                        *)
(***************************************************************************)
\* json.dump raises ValueError("Circular reference detected") when a dict
\* is met again while it is being encoded
Circular(h) == \E i \in Reach(h, 0) : i \in ReachStrict(h, i)

RECURSIVE ToJson(_, _)
\* the JSON document of an object: nested objects are written in place, so
\* an object held by two entries is written twice
ToJson(h, id) ==
    LET n == At(h, id)
    IN  [type |-> n.type, slash |-> n.slash, k |-> n.k, s |-> n.s,
         d |-> [x \in Keys(n) |-> ToJson(h, n.d[x])]]

NoFile == [st |-> "absent", doc |-> <<>>]
Malformed == [st |-> "malformed", doc |-> <<>>]
Document(doc) == [st |-> "ok", doc |-> doc]

\* save_state: open(file_path, 'w') truncates the file and json.dump writes
\* it piece by piece, so a dump that raises leaves a truncated document
save_state(h) ==
    IF Circular(h) THEN [disk |-> Malformed, ret |-> FALSE]
    ELSE [disk |-> Document(ToJson(h, 0)), ret |-> TRUE]

RECURSIVE FromJson(_, _)
RECURSIVE FromJsonKeys(_, _, _, _)
\* json.load builds a new dict for every object of the document; the
\* object built for doc is the one of identity Len(h)
FromJson(h, doc) ==
    FromJsonKeys(Append(h, Node(doc.type, doc.slash, doc.k, <<>>, doc.s)),
                 Len(h), doc, SortStrs(DOMAIN doc.d))
FromJsonKeys(h, id, doc, keys) ==
    IF Len(keys) = 0 THEN h
    ELSE FromJsonKeys(SetItem(FromJson(h, doc.d[keys[1]]), id, keys[1], Len(h)),
                      id, doc, Tail(keys))

\* self.file_system = {} placed before the json.load: a load that fails
\* leaves the empty dict
load_state_clear_first(h, d) ==
    IF d.st = "ok" THEN Result(FromJson(<<>>, d.doc), TRUE)
    ELSE Result(<<Node("none", FALSE, "absent", <<>>, <<>>)>>, FALSE)

\* load_state: self.file_system is assigned only after json.load returned
load_state(h, d) ==
    IF d.st = "ok" THEN Result(FromJson(<<>>, d.doc), TRUE)
    ELSE Result(h, FALSE)

\* __init__: the fresh outer dict, and load_state when the file exists
\* (what load_state returns is dropped)
__init__(d) ==
    IF d.st = "absent" THEN FreshFileSystem
    ELSE load_state(FreshFileSystem, d).h

(***************************************************************************)
(* The state machine.                                                      *)
(***************************************************************************)
\* the arguments the callers pass
A == <<"a">>
B == <<"b">>
AB == <<"a", "/", "b">>
MkdirNames == {A, AB, Empty}
TouchNames == {B, Empty}
EchoNames == {B, Slash, Empty}
MvSources == {A, AB}
MvDestinations == {A, B, DotDot}
CpSources == {A, B}
CpDestinations == {B, AB}
RmPaths == {A, AB, Slash}
CdPaths == {A, B, DotDot, Slash, Tilde}
Texts == {<<"x", "\\", "n">>}

\* what the last call was and what it returned
Last(op, ret) == [op |-> op, ret |-> ret]

Init ==
    /\ file_system = FreshFileSystem
    /\ current_directory = Slash
    /\ disk = NoFile
    /\ last = Last("init", TRUE)

\* the heap an operation leaves behind, as the next state keeps it; the
\* step is taken only when it holds at most MaxNodes dicts
Fits(h) == Len(Normalize(h)) <= MaxNodes

MkdirOf(names) == \E name \in names :
    LET r == mkdir(file_system, current_directory, name)
    IN  /\ Fits(r.h)
        /\ file_system' = Normalize(r.h)
        /\ last' = Last("mkdir", r.ret)
        /\ UNCHANGED <<current_directory, disk>>

TouchOf(names) == \E name \in names :
    LET r == touch(file_system, current_directory, name)
    IN  /\ Fits(r.h)
        /\ file_system' = Normalize(r.h)
        /\ last' = Last("touch", r.ret)
        /\ UNCHANGED <<current_directory, disk>>

EchoOf(names) == \E name \in names, text \in Texts, delete_content \in BOOLEAN :
    LET r == echo(file_system, current_directory, text, name, delete_content)
    IN  /\ Fits(r.h)
        /\ file_system' = Normalize(r.h)
        /\ last' = Last("echo", r.ret)
        /\ UNCHANGED <<current_directory, disk>>

MvOf(sources, destinations) == \E source \in sources, destination \in destinations :
    LET r == mv(file_system, current_directory, source, destination)
    IN  /\ Fits(r.h)
        /\ file_system' = Normalize(r.h)
        /\ last' = Last("mv", r.ret)
        /\ UNCHANGED <<current_directory, disk>>

CpOf(sources, destinations) == \E source \in sources, destination \in destinations :
    LET r == cp(file_system, current_directory, source, destination)
    IN  /\ Fits(r.h)
        /\ file_system' = Normalize(r.h)
        /\ last' = Last("cp", r.ret)
        /\ UNCHANGED <<current_directory, disk>>

RmOf(paths) == \E path \in paths :
    LET r == rm(file_system, current_directory, path)
    IN  /\ Fits(r.h)
        /\ file_system' = Normalize(r.h)
        /\ last' = Last("rm", r.ret)
        /\ UNCHANGED <<current_directory, disk>>

Mkdir == MkdirOf(MkdirNames)
Touch == TouchOf(TouchNames)
Echo == EchoOf(EchoNames)
Mv == MvOf(MvSources, MvDestinations)
Cp == CpOf(CpSources, CpDestinations)
Rm == RmOf(RmPaths)

Cd == \E path \in CdPaths :
    LET r == cd(file_system, current_directory, path)
    IN  /\ current_directory' = r.cwd
        /\ last' = Last("cd", r.ret)
        /\ UNCHANGED <<file_system, disk>>

Next == Mkdir \/ Touch \/ Echo \/ Mv \/ Cp \/ Rm \/ Cd

\* the namespace operations
Spec == Init /\ [][Next]_vars

(***************************************************************************)
(* The namespace together with its snapshot file: save_state and           *)
(* load_state, and the operations on a smaller set of arguments.           *)
(***************************************************************************)
StoreMkdirNames == {A, AB}
StoreFileNames == {B}
StoreMvSources == {AB}
StoreMvDestinations == {A, AB}
StoreRmPaths == {A, B}

StoreMkdir == MkdirOf(StoreMkdirNames)
StoreTouch == TouchOf(StoreFileNames)
StoreEcho == EchoOf(StoreFileNames)
StoreMv == MvOf(StoreMvSources, StoreMvDestinations)
StoreRm == RmOf(StoreRmPaths)

Save ==
    LET r == save_state(file_system)
    IN  /\ disk' = r.disk
        /\ last' = Last("save", r.ret)
        /\ UNCHANGED <<file_system, current_directory>>

Load ==
    LET r == load_state(file_system, disk)
    IN  /\ Fits(r.h)
        /\ file_system' = Normalize(r.h)
        /\ last' = Last("load", r.ret)
        /\ UNCHANGED <<current_directory, disk>>

\* the process ends, its exit handler saves the state, and a new process
\* is started on the same snapshot file
Restart ==
    LET d == save_state(file_system).disk
    IN  /\ Fits(__init__(d))
        /\ file_system' = Normalize(__init__(d))
        /\ current_directory' = Slash
        /\ disk' = d
        /\ last' = Last("init", TRUE)

NextStore ==
    StoreMkdir \/ StoreTouch \/ StoreEcho \/ StoreMv \/ StoreRm \/ Save \/ Load \/ Restart

SpecStore == Init /\ [][NextStore]_vars

(***************************************************************************)
(* Exceptions.  Every method body is one try block; the operators below    *)
(* give the class of the exception a body raises ("none" when it returns), *)
(* statement by statement, and Handled is the except clause.               *)
(***************************************************************************)
NoException == "none"

\* d['contents'][key] = value on the dict d (None when the lookup failed)
SetItemRaises(h, id) ==
    IF id = None THEN "TypeError"
    ELSE IF At(h, id).k = "absent" THEN "KeyError"
    ELSE IF At(h, id).k = "str" THEN "TypeError"
    ELSE NoException

\* del d['contents'][key] on the dict d (None when the lookup failed)
DelItemRaises(h, id, key) ==
    IF SetItemRaises(h, id) # NoException THEN SetItemRaises(h, id)
    ELSE IF key \notin Keys(At(h, id)) THEN "KeyError"
    ELSE NoException

mkdir_raises(h, cwd, directory_name) ==
    IF directory_name = Empty THEN NoException
    ELSE LET new_directory_path == get_absolute_path(cwd, directory_name)
             parent_directory ==
                 get_directory(h, get_parent_and_name(new_directory_path)[1])
         IN  IF InOuterDict(h, new_directory_path) THEN NoException
             ELSE IF parent_directory = None THEN "TypeError"
             ELSE IF At(h, parent_directory).k = "absent" THEN NoException
             ELSE SetItemRaises(h, parent_directory)

touch_raises(h, cwd, file_name) ==
    IF file_name = Empty THEN NoException
    ELSE LET file_path == FPath(cwd, file_name)
         IN  IF get_directory(h, file_path) # None THEN NoException
             ELSE SetItemRaises(h, get_directory(h, get_parent_and_name(file_path)[1]))

echo_raises(h, cwd, text, file_name, delete_content) ==
    IF file_name = Empty THEN NoException
    ELSE LET file_path == FPath(cwd, file_name)
             created == CreateFile(h, file_path)
         IN  IF get_directory(h, file_path) # None THEN NoException
             ELSE IF ~created.ret
                  THEN SetItemRaises(h, get_directory(h, get_parent_and_name(file_path)[1]))
             ELSE IF get_directory(created.h, file_path) = None THEN "TypeError"
             ELSE NoException

mv_raises(h, cwd, source, destination) ==
    LET source_item == get_directory(h, FPath(cwd, source))
        parent_directory_path == get_parent_and_name(cwd)[1]
        destination_directory ==
            IF ContainsDotDot(destination)
            THEN get_directory(h, parent_directory_path)
            ELSE get_directory(h, FPath(cwd, destination))
    IN  IF source_item = None THEN NoException
        ELSE IF ContainsDotDot(destination) /\ parent_directory_path = Empty
             THEN NoException
        ELSE IF destination_directory = None THEN NoException
        ELSE IF At(h, destination_directory).type # "directory" THEN NoException
        ELSE IF SetItemRaises(h, destination_directory) # NoException
             THEN SetItemRaises(h, destination_directory)
        ELSE LET h1 == SetItem(h, destination_directory, source, source_item)
             IN  DelItemRaises(h1, get_directory(h1, cwd), source)

cp_raises(h, cwd, source, destination) ==
    LET source_item == get_directory(h, FPath(cwd, source))
        pn == get_parent_and_name(FPath(cwd, destination))
        destination_directory ==
            get_directory(h, IF pn[2] = DotDot THEN get_parent_and_name(pn[1])[1]
                             ELSE pn[1])
    IN  IF source_item = None THEN NoException
        ELSE IF destination_directory = None THEN NoException
        ELSE IF At(h, destination_directory).type # "directory" THEN NoException
        ELSE SetItemRaises(h, destination_directory)

rm_raises(h, cwd, path) ==
    IF path = Slash THEN NoException
    ELSE LET item_path == FPath(cwd, path)
             pn == get_parent_and_name(item_path)
         IN  IF get_directory(h, item_path) = None THEN NoException
             ELSE DelItemRaises(h, get_directory(h, pn[1]), pn[2])

\* path.startswith on None
cd_raises(h, cwd, path) == IF path = NoPath THEN "AttributeError" ELSE NoException

\* contents.keys() on a str
ls_raises(h, cwd, path) ==
    LET target_directory == get_directory(h, IF path = NoPath THEN cwd ELSE path)
    IN  IF target_directory = None THEN NoException
        ELSE IF At(h, target_directory).k = "str" THEN "AttributeError"
        ELSE NoException

cat_raises(h, cwd, file_name) == NoException

\* contents.split on a dict
grep_raises(h, cwd, file_name, pattern) ==
    LET target_file == get_directory(h, FPath(cwd, file_name))
    IN  IF target_file = None THEN NoException
        ELSE IF At(h, target_file).type # "file" THEN NoException
        ELSE IF At(h, target_file).k = "dict" THEN "AttributeError"
        ELSE NoException

\* json.dump on a dict that holds itself
save_state_raises(h) == IF Circular(h) THEN "ValueError" ELSE NoException

\* open(file_path, 'r') on a missing file, json.load on a truncated one
load_state_raises(d) ==
    IF d.st = "absent" THEN "FileNotFoundError"
    ELSE IF d.st = "malformed" THEN "JSONDecodeError"
    ELSE NoException

\* `except LookupError` in the place of `except Exception`
Handled_LookupError(e) == e \in {"KeyError", "IndexError"}

\* `except Exception as e:` catches every class the bodies raise
Handled(e) ==
    e \in {"KeyError", "IndexError", "TypeError", "AttributeError", "ValueError",
           "FileNotFoundError", "JSONDecodeError"}

(***************************************************************************)
(* The queries ls, cat and grep, next to the operations that build what    *)
(* they read.                                                              *)
(***************************************************************************)
SlashA == <<"/", "a">>
LsPaths == {NoPath, A, SlashA}
CatNames == {A, B}
GrepNames == {A, B}
Patterns == {<<"x">>, <<"y">>}

\* ls with contents = target_directory.setdefault('contents', {}) in the
\* place of target_directory.get('contents', {})
Ls_setdefault == \E path \in LsPaths :
    LET target_directory ==
            get_directory(file_system, IF path = NoPath THEN current_directory ELSE path)
    IN  /\ file_system' =
               IF target_directory # None /\ At(file_system, target_directory).k = "absent"
               THEN Put(file_system, target_directory,
                        [At(file_system, target_directory) EXCEPT !.k = "dict"])
               ELSE file_system
        /\ last' = Last("ls", ls(file_system, current_directory, path) # {})
        /\ UNCHANGED <<current_directory, disk>>

Ls == \E path \in LsPaths :
    /\ last' = Last("ls", ls(file_system, current_directory, path) # {})
    /\ UNCHANGED <<file_system, current_directory, disk>>

Cat == \E name \in CatNames :
    /\ last' = Last("cat", cat(file_system, current_directory, name) # CatNone)
    /\ UNCHANGED <<file_system, current_directory, disk>>

Grep == \E name \in GrepNames, pattern \in Patterns :
    /\ last' = Last("grep", grep(file_system, current_directory, name, pattern) # <<>>)
    /\ UNCHANGED <<file_system, current_directory, disk>>

NextRead == Mkdir \/ Touch \/ Echo \/ Cd \/ Ls \/ Cat \/ Grep

SpecRead == Init /\ [][NextRead]_vars

(***************************************************************************)
(* The path resolver on its own: get_absolute_path applied, again and      *)
(* again, to a current directory and an input, as cd does when it keeps    *)
(* what the resolver returned.                                             *)
(***************************************************************************)
DotDotC == <<".", ".", "/", "c">>
ResolveDirs == {Slash, SlashA, <<"/", "a", "/", "b">>}
ResolveInputs == {A, B, AB, DotDot, DotDotC, Empty, SlashA, <<"b", "/", ".", ".">>}

InitResolve ==
    /\ file_system = FreshFileSystem
    /\ current_directory \in ResolveDirs
    /\ disk = NoFile
    /\ last = Last("init", TRUE)

Resolve == \E input \in ResolveInputs :
    LET path == get_absolute_path(current_directory, input)
    IN  /\ Len(path) <= MaxPathLen
        /\ current_directory' = path
        /\ last' = Last("resolve", StartsWithSlash(path))
        /\ UNCHANGED <<file_system, disk>>

SpecResolve == InitResolve /\ [][Resolve]_vars

(***************************************************************************)
(* Vocabulary of the properties.                                           *)
(***************************************************************************)
\* the node is tagged as a Directory: the outer dict (the root) or a dict
\* whose 'type' is 'directory'
TaggedDirectory(h, id) ==
    /\ id # None
    /\ id = 0 \/ At(h, id).type = "directory"

\* the node is a Directory whose children are a name-to-node mapping (or
\* nothing yet): what is under 'contents' is not a string
Directory(h, id) ==
    /\ TaggedDirectory(h, id)
    /\ At(h, id).k # "str"

\* the entries (parent, name) that hold the object id
InEdges(h, id) ==
    UNION {{<<p, x>> : x \in {y \in Keys(At(h, p)) : At(h, p).d[y] = id}} : p \in Ids(h)}

RECURSIVE Unfold(_, _, _)
\* the tags, contents and children of a node, to depth n
Unfold(h, id, n) ==
    LET node == At(h, id)
    IN  [type |-> node.type, slash |-> node.slash, k |-> node.k, s |-> node.s,
         d |-> [x \in (IF n = 0 THEN {} ELSE Keys(node)) |-> Unfold(h, node.d[x], n - 1)]]

\* node i of heap g and node j of heap h have the same tree shape, tags and
\* contents (two nodes of graphs with N nodes in all that agree to depth N
\* agree at every depth)
Same(g, i, h, j) == Unfold(g, i, Len(g) + Len(h)) = Unfold(h, j, Len(g) + Len(h))

\* every node that was under id in heap g is the same dict, unchanged, in h
Untouched(g, h, id) == \A i \in Reach(g, id) : At(h, i) = At(g, i)

\* the leaf name of a path argument
LeafName(path) == get_parent_and_name(path)[2]

\* the directory above the current directory, None at the root
ParentOfCwd(h, cwd) ==
    LET parts == NonEmptyParts(cwd)
    IN  IF Len(parts) = 0 THEN None
        ELSE get_directory(h, Slash \o Join(Front(parts)))

\* the node a destination argument names: '..' is the directory above the
\* current directory, a name is looked up under the current directory
DestinationOf(h, cwd, destination) ==
    IF destination = DotDot THEN ParentOfCwd(h, cwd)
    ELSE get_directory(h, FPath(cwd, destination))

(***************************************************************************)
(* Properties.                                                             *)
(***************************************************************************)
\* C1: the namespace is a strict tree in every reachable state: no dict is
\* held by two child entries, the root is held by none, and no dict is
\* reachable from itself.
C1_StrictTree ==
    /\ \A i \in Ids(file_system) :
           Cardinality(InEdges(file_system, i)) = (IF i = 0 THEN 0 ELSE 1)
    /\ ~Circular(file_system)

\* C2: in every reachable state the current directory string resolves, by
\* lookup from the root, to an existing node that is a Directory.
C2_CwdIsDirectory ==
    TaggedDirectory(file_system, get_directory(file_system, current_directory))

\* C3: in every reachable state the root is a Directory whose children are a
\* name-to-node mapping, and rm("/") returns failure.
C3_RootIsDirectory ==
    /\ Directory(file_system, 0)
    /\ ~rm(file_system, current_directory, Slash).ret

\* C4: if a node already exists at the path the name resolves to, mkdir(name)
\* returns failure and leaves the namespace unchanged.
C4_MkdirExistingFails ==
    \A name \in MkdirNames :
        LET r == mkdir(file_system, current_directory, name)
        IN  (/\ name # Empty
             /\ get_directory(file_system,
                              get_absolute_path(current_directory, name)) # None)
            => (~r.ret /\ r.h = file_system)

\* C5: for every reachable namespace, save succeeds and loading what was
\* saved gives a namespace of the same tree shape, tags and file contents.
C5_SaveLoadRoundTrip ==
    LET sv == save_state(file_system)
    IN  /\ sv.ret
        /\ LET ld == load_state(file_system, sv.disk)
           IN  ld.ret /\ Same(ld.h, 0, file_system, 0)

\* C6: whenever mv(source, destination) returns true, the node that was at
\* source is no longer found at the source path, and is found as the child,
\* under the source's leaf name, of the directory destination named, with
\* its content and subtree as before the call.
C6_MvMovesNode ==
    \A source \in MvSources, destination \in MvDestinations :
        LET r == mv(file_system, current_directory, source, destination)
            item == get_directory(file_system, FPath(current_directory, source))
            dir == DestinationOf(file_system, current_directory, destination)
        IN  r.ret =>
                /\ get_directory(r.h, FPath(current_directory, source)) # item
                /\ dir \in Reach(r.h, 0)
                /\ Child(r.h, dir, LeafName(source)) = item
                /\ Untouched(file_system, r.h, item)

\* C7: whenever source exists (a single name or a multi-segment path) and
\* destination names an existing Directory (the root included), mv returns
\* true.
C7_MvSucceeds ==
    \A source \in MvSources, destination \in MvDestinations :
        LET r == mv(file_system, current_directory, source, destination)
            item == get_directory(file_system, FPath(current_directory, source))
            dir == DestinationOf(file_system, current_directory, destination)
        IN  (item # None /\ Directory(file_system, dir)) => r.ret

\* C8: when source exists and destination names an existing Directory D,
\* cp returns true and inserts the copy as a child of D under the source's
\* leaf name; D stays a Directory and its other children are unchanged.
C8_CpIntoDirectory ==
    \A source \in CpSources, destination \in CpDestinations :
        LET r == cp(file_system, current_directory, source, destination)
            item == get_directory(file_system, FPath(current_directory, source))
            dir == get_directory(file_system, FPath(current_directory, destination))
            leaf == LeafName(source)
        IN  (item # None /\ Directory(file_system, dir)) =>
                /\ r.ret
                /\ get_directory(r.h, FPath(current_directory, destination)) = dir
                /\ Directory(r.h, dir)
                /\ Child(r.h, dir, leaf) # None
                /\ Same(r.h, Child(r.h, dir, leaf), file_system, item)
                /\ \A x \in Keys(At(file_system, dir)) \ {leaf} :
                       Child(r.h, dir, x) = Child(file_system, dir, x)

\* C9: when source exists and destination names a non-existent child of an
\* existing Directory P (the root included), cp returns true, P then has a
\* child under destination's leaf name that is structurally equal to source,
\* and source is unchanged.
C9_CpToNewName ==
    \A source \in CpSources, destination \in CpDestinations :
        LET r == cp(file_system, current_directory, source, destination)
            item == get_directory(file_system, FPath(current_directory, source))
            pn == get_parent_and_name(FPath(current_directory, destination))
            parent == get_directory(file_system, pn[1])
        IN  (/\ item # None
             /\ Directory(file_system, parent)
             /\ get_directory(file_system, FPath(current_directory, destination)) = None)
            => /\ r.ret
               /\ Child(r.h, parent, pn[2]) # None
               /\ Same(r.h, Child(r.h, parent, pn[2]), file_system, item)
               /\ Untouched(file_system, r.h, item)

\* C10: after a successful cp the copy shares no node with the original:
\* every dict reachable from the inserted copy was created by this call.  A
\* later echo through the copy's path then leaves every dict that was under
\* the source as it is, and an echo through the source's path (while the
\* original is still what that path names) leaves every dict of the copy as
\* it is.
C10_CopySharesNothing ==
    \A source \in CpSources, destination \in CpDestinations :
        LET r == cp(file_system, current_directory, source, destination)
            item == get_directory(file_system, FPath(current_directory, source))
            pn == get_parent_and_name(FPath(current_directory, destination))
            parent == get_directory(file_system, pn[1])
            copy == Child(r.h, parent, pn[2])
        IN  r.ret =>
                /\ copy # None
                /\ Reach(r.h, copy) \cap Ids(file_system) = {}
                /\ \A text \in Texts :
                       LET onCopy == echo(r.h, current_directory, text, destination, FALSE)
                           onSource == echo(r.h, current_directory, text, source, FALSE)
                       IN  /\ onCopy.ret /\ onSource.ret
                           /\ \A i \in Reach(file_system, item) : At(onCopy.h, i) = At(r.h, i)
                           /\ get_directory(r.h, FPath(current_directory, source)) = item =>
                                  \A i \in Reach(r.h, copy) : At(onSource.h, i) = At(r.h, i)

\* a cp has just succeeded and the tree holds a file with text in it twice,
\* as two distinct dicts
C10_Witness ==
    /\ last = Last("cp", TRUE)
    /\ \E i \in Ids(file_system), j \in Ids(file_system) :
           /\ i # j
           /\ At(file_system, i).type = "file"
           /\ At(file_system, i).s # Empty
           /\ At(file_system, i) = At(file_system, j)

\* C11: when the current directory is an existing Directory (the root of a
\* fresh namespace included), name is non-empty and nothing exists at the
\* path, touch(name) returns true and an empty File is then found at that
\* path; when a node exists there, touch returns failure and changes nothing.
C11_TouchCreates ==
    \A name \in TouchNames :
        LET r == touch(file_system, current_directory, name)
            path == FPath(current_directory, name)
            here == get_directory(file_system, current_directory)
            there == get_directory(file_system, path)
        IN  /\ (name # Empty /\ Directory(file_system, here) /\ there = None) =>
                   /\ r.ret
                   /\ get_directory(r.h, path) # None
                   /\ At(r.h, get_directory(r.h, path)) = NewFile
            /\ (name # Empty /\ there # None) => (~r.ret /\ r.h = file_system)

\* C12: whenever echo(text, name) returns true, the node at name is a File
\* and cat(name) right after returns the text with each backslash-n pair
\* replaced by a newline (the empty string when delete_content is set),
\* whatever the file held before.
C12_EchoThenCat ==
    \A name \in EchoNames, text \in Texts, delete_content \in BOOLEAN :
        LET r == echo(file_system, current_directory, text, name, delete_content)
            node == get_directory(r.h, FPath(current_directory, name))
        IN  r.ret =>
                /\ node # None
                /\ At(r.h, node).type = "file"
                /\ cat(r.h, current_directory, name) =
                       CatStr(IF delete_content THEN Empty ELSE Replace(text))

\* C13: cd(path), for a path other than "/", "~" and "..", returns true only
\* if the path it resolves to exists and is a Directory.
C13_CdRequiresDirectory ==
    \A path \in CdPaths \ {Slash, Tilde, DotDot} :
        LET r == cd(file_system, current_directory, path)
            target == get_directory(file_system,
                                    get_absolute_path(current_directory, path))
        IN  r.ret => TaggedDirectory(file_system, target)

\* C14: from a current directory of n >= 1 segments, cd("..") returns true
\* and leaves the current directory with its last segment removed, which is
\* "/" when n = 1.
C14_CdDotDotPops ==
    LET parts == NonEmptyParts(current_directory)
        r == cd(file_system, current_directory, DotDot)
    IN  Len(parts) >= 1 =>
            /\ r.ret
            /\ r.cwd = Slash \o Join(Front(parts))

\* C15: a cd that returns failure leaves the current directory as it was, no
\* cd changes the namespace, and no other operation changes the current
\* directory.
C15_CdFrame ==
    [][/\ (last'.op = "cd" /\ ~last'.ret) => current_directory' = current_directory
       /\ last'.op = "cd" => file_system' = file_system
       /\ last'.op # "cd" => current_directory' = current_directory]_vars

\* a cd has just failed somewhere below the root
C15_Witness ==
    /\ last = Last("cd", FALSE)
    /\ current_directory # Slash

\* the operations that change the namespace
MutatingOps == {"mkdir", "touch", "echo", "mv", "cp", "rm"}

\* C16: after every mutating operation that returns success, what the
\* snapshot file holds is the namespace in memory, for a caller that uses
\* the operations as the API handlers do.
C16_SnapshotFollows ==
    (last.op \in MutatingOps /\ last.ret) =>
        /\ ~Circular(file_system)
        /\ disk = Document(ToJson(file_system, 0))

\* C17: a load from a missing or malformed snapshot returns failure and
\* leaves the namespace in memory exactly as it was; a process started with
\* no snapshot file has the fresh single-root namespace.
C17_LoadFailureKeepsNamespace ==
    /\ disk.st # "ok" =>
           LET r == load_state(file_system, disk)
           IN  ~r.ret /\ r.h = file_system
    /\ (last.op = "init" /\ disk.st # "ok") => file_system = FreshFileSystem

\* a load has just failed on a namespace that has nodes under the root
C17_Witness ==
    /\ last = Last("load", FALSE)
    /\ disk.st # "ok"
    /\ Len(file_system) > 1

\* a name that lookup can follow: not empty and with no '/' in it
Segment(x) == x # Empty /\ Split(x) = <<x>>

RECURSIVE FoundPaths(_, _, _)
\* the paths of at most n segments that lookup finds from node id, as
\* segment lists
FoundPaths(h, id, n) ==
    {<<>>} \cup
    (IF n = 0 THEN {}
     ELSE UNION {{<<x>> \o p : p \in FoundPaths(h, At(h, id).d[x], n - 1)} :
                 x \in {y \in Keys(At(h, id)) : Segment(y)}})

IsPrefix(p, q) == Len(p) <= Len(q) /\ SubSeq(q, 1, Len(p)) = p

C19_KeysAreSegments ==
    \A i \in Ids(file_system) : \A x \in Keys(At(file_system, i)) : Segment(x)

\* the names with no '/' in them that C20 is tried on
PlainNames == {A, B, DotDot}

\* C20: for every non-empty name with no '/' in it, if mkdir(name) returns
\* true then ls() right after, from the same current directory, includes
\* name, and the entry under that name is an empty Directory.
C20_MkdirThenLs ==
    \A name \in PlainNames :
        LET r == mkdir(file_system, current_directory, name)
            here == get_directory(r.h, current_directory)
        IN  r.ret =>
                /\ name \in ls(r.h, current_directory, NoPath)
                /\ At(r.h, Child(r.h, here, name)) = NewDirectory

\* the operations that only read
ReadOps == {"ls", "cat", "grep"}

\* C21: ls, cat and grep, whether they find something or not, leave the
\* namespace and the current directory as they were.
C21_QueriesChangeNothing ==
    [][last'.op \in ReadOps =>
           /\ file_system' = file_system
           /\ current_directory' = current_directory]_vars

\* a grep has just returned matching lines
C21_Witness ==
    /\ last = Last("grep", TRUE)
    /\ Len(file_system) > 1

\* an exception of class e reaches the caller of the method
Escapes(e) == e # NoException /\ ~Handled(e)

\* the operation returned its failure value whenever its body raised
Failed(e, ret) == e # NoException => ~ret

\* C22: every operation, with any of the arguments in any reachable state,
\* returns its failure value rather than raising to its caller: whatever a
\* body raises is caught by the method's handler, and the method then
\* returns False, [] or None.
C22_NoExceptionEscapes ==
    /\ \A name \in MkdirNames :
           LET e == mkdir_raises(file_system, current_directory, name)
           IN  ~Escapes(e) /\ Failed(e, mkdir(file_system, current_directory, name).ret)
    /\ \A name \in TouchNames :
           LET e == touch_raises(file_system, current_directory, name)
           IN  ~Escapes(e) /\ Failed(e, touch(file_system, current_directory, name).ret)
    /\ \A name \in EchoNames, text \in Texts, delete_content \in BOOLEAN :
           LET e == echo_raises(file_system, current_directory, text, name, delete_content)
           IN  /\ ~Escapes(e)
               /\ Failed(e, echo(file_system, current_directory, text, name,
                                 delete_content).ret)
    /\ \A source \in MvSources, destination \in MvDestinations :
           LET e == mv_raises(file_system, current_directory, source, destination)
           IN  /\ ~Escapes(e)
               /\ Failed(e, mv(file_system, current_directory, source, destination).ret)
    /\ \A source \in CpSources, destination \in CpDestinations :
           LET e == cp_raises(file_system, current_directory, source, destination)
           IN  /\ ~Escapes(e)
               /\ Failed(e, cp(file_system, current_directory, source, destination).ret)
    /\ \A path \in RmPaths :
           LET e == rm_raises(file_system, current_directory, path)
           IN  ~Escapes(e) /\ Failed(e, rm(file_system, current_directory, path).ret)
    /\ \A path \in CdPaths \cup {NoPath} :
           LET e == cd_raises(file_system, current_directory, path)
           IN  ~Escapes(e) /\ Failed(e, cd(file_system, current_directory, path).ret)
    /\ \A path \in LsPaths :
           LET e == ls_raises(file_system, current_directory, path)
           IN  /\ ~Escapes(e)
               /\ e # NoException => ls(file_system, current_directory, path) = {}
    /\ \A name \in CatNames :
           ~Escapes(cat_raises(file_system, current_directory, name))
    /\ \A name \in GrepNames, pattern \in Patterns :
           LET e == grep_raises(file_system, current_directory, name, pattern)
           IN  /\ ~Escapes(e)
               /\ e # NoException =>
                      grep(file_system, current_directory, name, pattern) = <<>>
    /\ LET e == save_state_raises(file_system)
       IN  ~Escapes(e) /\ Failed(e, save_state(file_system).ret)
    /\ \A d \in {disk, save_state(file_system).disk} :
           LET e == load_state_raises(d)
           IN  ~Escapes(e) /\ Failed(e, load_state(file_system, d).ret)

\* an mv has just returned False after its body raised (the entry it
\* inserted before the raise is there, under the source string as key)
C22_Witness ==
    /\ last = Last("mv", FALSE)
    /\ \E i \in Ids(file_system) : AB \in Keys(At(file_system, i))

\* the call returned success, or left the namespace as this state has it
SuccessOrUnchanged(r) == r.ret \/ Normalize(r.h) = file_system

\* C23: every mutating operation that returns failure leaves the namespace
\* exactly as it was: no entry inserted, replaced or removed.
C23_FailureChangesNothing ==
    /\ \A name \in MkdirNames :
           SuccessOrUnchanged(mkdir(file_system, current_directory, name))
    /\ \A name \in TouchNames :
           SuccessOrUnchanged(touch(file_system, current_directory, name))
    /\ \A name \in EchoNames, text \in Texts, delete_content \in BOOLEAN :
           SuccessOrUnchanged(echo(file_system, current_directory, text, name,
                                   delete_content))
    /\ \A source \in CpSources, destination \in CpDestinations :
           SuccessOrUnchanged(cp(file_system, current_directory, source, destination))
    /\ \A path \in RmPaths :
           SuccessOrUnchanged(rm(file_system, current_directory, path))
    /\ \A source \in MvSources, destination \in MvDestinations :
           SuccessOrUnchanged(mv(file_system, current_directory, source, destination))

\* the node at lookup(root, resolve(current directory, argument))
ResolvedNode(h, cwd, argument) == get_directory(h, get_absolute_path(cwd, argument))

SlashB == <<"/", "b">>

\* relative and absolute path arguments
PathArguments == {A, B, SlashA, SlashB}

\* C24: every operation that takes a path argument addresses the node at
\* lookup(root, resolve(current directory, argument)): ls lists that node
\* and cat reads it; mkdir and touch create it; rm removes it.
C24_ArgumentsAreResolved ==
    \A argument \in PathArguments :
        LET node == ResolvedNode(file_system, current_directory, argument)
            made == mkdir(file_system, current_directory, argument)
            touched == touch(file_system, current_directory, argument)
            removed == rm(file_system, current_directory, argument)
        IN  /\ ls(file_system, current_directory, argument) =
                   (IF node = None THEN {} ELSE Keys(At(file_system, node)))
            /\ cat(file_system, current_directory, argument) =
                   (IF node = None THEN CatNone
                    ELSE IF At(file_system, node).type # "file" THEN CatNone
                    ELSE CatStr(At(file_system, node).s))
            /\ made.ret =>
                   ResolvedNode(made.h, current_directory, argument) = NewId(file_system)
            /\ touched.ret =>
                   ResolvedNode(touched.h, current_directory, argument) = NewId(file_system)
            /\ removed.ret =>
                   /\ node # None
                   /\ ResolvedNode(removed.h, current_directory, argument) = None

\* C25: for a relative input whose first segment is ".." and a current
\* directory of at least one segment, resolve returns the segments of the
\* current directory without the last one, followed by the segments of the
\* input after that first ".."; for any other relative input, the segments
\* of the current directory followed by all the segments of the input.
C25_ResolveRelative ==
    \A input \in ResolveInputs :
        LET current_parts == NonEmptyParts(current_directory)
            path_parts == NonEmptyParts(input)
            path == get_absolute_path(current_directory, input)
        IN  (StartsWithSlash(current_directory) /\ ~StartsWithSlash(input)) =>
                IF Len(path_parts) > 0 /\ path_parts[1] = DotDot
                THEN Len(current_parts) >= 1 =>
                         path = Slash \o Join(Front(current_parts) \o Tail(path_parts))
                ELSE path = Slash \o Join(current_parts \o path_parts)

\* C26: for every absolute current directory and every input, resolve
\* returns a string that begins with '/', and exactly "/" when the segment
\* list of the result is empty.
C26_ResolveIsAbsolute ==
    \A input \in ResolveInputs :
        LET path == get_absolute_path(current_directory, input)
        IN  StartsWithSlash(current_directory) =>
                /\ StartsWithSlash(path)
                /\ NonEmptyParts(path) = <<>> => path = Slash

====
